---- MODULE Spec2Model ----
(***************************************************************************)
(* Model of the dataset-access component (src/dataset/loader.py) and of    *)
(* the experiment utilities (src/gmmc_grid_search/utils.py).               *)
(*                                                                         *)
(* Python strings whose characters matter (paths, index-file lines) are    *)
(* sequences of one-character strings, so that concatenation is \o.        *)
(* Opaque keys (file hashes, exception names) are TLA+ strings.            *)
(***************************************************************************)
EXTENDS Integers, Sequences, FiniteSets, TLC

VARIABLES
    catalog,     \* rows of the images table, in table order
    files,       \* paths p with os.path.isfile(p)
    dirs,        \* paths p with os.path.isdir(p)
    store,       \* h5 files: filename -> (file hash -> feature array)
    rng,         \* state of the process-wide random module
    ds,          \* the CollectionDataset instance the caller holds
    result,      \* outcome of the last operation on the instance
    reported,    \* what the last verification wrote to the console
    call,        \* the last construction: its arguments, queried rows and outcome
    last,        \* the construction before it (history)
    part,        \* last divide_integer_K call: its arguments and its array
    acc,         \* files / labels / label_dict threaded through get_files_and_labels
    gfl,         \* the last get_files_and_labels call and the state it started from
    ret          \* the last call of a static method or of a utility: arguments and outcome

vars ==
    <<catalog, files, dirs, store, rng, ds, result, reported, call, last, part, acc, gfl, ret>>

----------------------------------------------------------------------------
(* Bounds of the model.                                                    *)

\* loader.py:191-193 set the caps to 500 / 54000 / 6000.  The model keeps the
\* code's arithmetic and scales the three caps down so that catalogs with
\* more classes and more rows than the caps are within reach.
sample_class_num ==
    2
sample_train_size ==
    3
sample_test_size ==
    2
\* longest catalog
MaxRows ==
    4
\* the random module's state space is 0 .. RngMod-1
RngMod ==
    8

----------------------------------------------------------------------------
(* Module-level constants of loader.py.                                    *)

IMAGES_ROOT_PATH ==
    <<"/", "l", "a", "b", "/", "t", "m", "p", "i", "g", "1", "5", "b", "/", "u", "/", "n", "a", "m", "e", "-", "p", "e", "n", "d", "i", "n", "g", "_", "c", "o", "l", "l", "e", "c", "t", "i", "o", "n", "/">>
VECTORS_ROOT_PATH ==
    <<"/", "l", "a", "b", "/", "t", "m", "p", "i", "g", "1", "5", "b", "/", "u", "/", "n", "a", "m", "e", "-", "p", "e", "n", "d", "i", "n", "g", "_", "c", "o", "l", "l", "e", "c", "t", "i", "o", "n", "_", "v", "e", "c", "t", "o", "r", "s", "/">>
DATABASE_PATH ==
    <<"/", "l", "a", "b", "/", "t", "m", "p", "i", "g", "1", "5", "b", "/", "u", "/", "n", "a", "m", "e", "-", "p", "e", "n", "d", "i", "n", "g", "_", "c", "o", "l", "l", "e", "c", "t", "i", "o", "n", "/", "0", "_", "c", "o", "l", "l", "e", "c", "t", "i", "o", "n", "/", "a", "l", "l", "_", "i", "m", "a", "g", "e", "s", ".", "s", "q", "l", "i", "t", "e">>

SET_TYPES ==
    <<"train", "validation", "test">>
INPUT_TYPES ==
    <<"original", "features">>
VECTOR_TYPES ==
    <<"resnet50", "xception">>

\* math.inf
Inf ==
    -1
\* the seed of random.seed(27)
SEED ==
    27
\* pipeline=None
None ==
    "None"
\* label_dict=None, or a field that was never assigned
NoDict ==
    <<>>
\* CollectionImage.feature_vector's default, Tensor([])
EmptyTensor ==
    <<>>

----------------------------------------------------------------------------
(* Helpers: Python built-ins the code relies on.                           *)

Range(s) ==
    {s[i] : i \in 1..Len(s)}

\* the list with the elements f[1], ..., f[n], as a sequence value
List(f) ==
    f \o <<>>

\* x in SET_TYPES, s.index(x)
IndexOf(s, x) ==
    (CHOOSE i \in 1..Len(s) : s[i] = x) - 1

\* a > b where b may be math.inf
Gt(a, b) ==
    b # Inf /\ a > b

\* a >= b where b may be math.inf
Ge(a, b) ==
    b # Inf /\ a >= b

\* round(a / b) for a >= 0, b > 0: Python 3 rounds a tie to the even neighbour
Round(a, b) ==
    LET q == a \div b
        r == a % b
    IN  IF 2 * r < b THEN q
        ELSE IF 2 * r > b THEN q + 1
        ELSE IF q % 2 = 0 THEN q ELSE q + 1

\* the string name of a vector type as characters, for the h5 file name
Chars(vt) ==
    IF vt = "resnet50" THEN <<"r", "e", "s", "n", "e", "t", "5", "0">>
    ELSE <<"x", "c", "e", "p", "t", "i", "o", "n">>

\* s.replace("//", "/"): left to right, non-overlapping.  i is the position
\* being read, out what was written so far.
RECURSIVE ReplaceFrom(_, _, _)
ReplaceFrom(s, i, out) ==
    IF i > Len(s) THEN out
    ELSE IF i < Len(s) /\ s[i] = "/" /\ s[i + 1] = "/"
         THEN ReplaceFrom(s, i + 2, Append(out, "/"))
         ELSE ReplaceFrom(s, i + 1, Append(out, s[i]))

ReplaceSlashes(s) ==
    ReplaceFrom(s, 1, <<>>)

----------------------------------------------------------------------------
(* The random module: a generator whose whole state is one number.        *)
(* random.seed(x) sets the state from x alone; every draw advances it.    *)

seed(x) ==
    x % RngMod

RngNext(s) ==
    (5 * s + 3) % RngMod

\* random._randbelow(n) drawn in state s (after advancing)
randbelow(n, s) ==
    RngNext(s) % n

Swap(x, i, j) ==
    [x EXCEPT ![i] = x[j], ![j] = x[i]]

\* random.shuffle(x): for i in reversed(range(1, len(x))): j = randbelow(i+1);
\* x[i], x[j] = x[j], x[i].  i is the 1-based position here.
RECURSIVE ShuffleFrom(_, _, _)
ShuffleFrom(x, i, s) ==
    IF i < 2 THEN [seq |-> x, rng |-> s]
    ELSE ShuffleFrom(Swap(x, i, randbelow(i, s) + 1), i - 1, RngNext(s))

shuffle(x, s) ==
    ShuffleFrom(x, Len(x), s)

----------------------------------------------------------------------------
(* Python dicts keep insertion order: a dict is a sequence of [k, v].     *)

Keys(d) ==
    List([i \in 1..Len(d) |-> d[i].k])

HasKey(d, key) ==
    \E i \in 1..Len(d) : d[i].k = key

\* d[key], for a key that is present
Get(d, key) ==
    d[CHOOSE i \in 1..Len(d) : d[i].k = key].v

\* a slice that keeps the whole list
PrefixWhole(s, n) ==
    s

\* list(...)[:n], n possibly math.inf
Prefix(s, n) ==
    IF n = Inf \/ n >= Len(s) THEN s ELSE SubSeq(s, 1, n)

----------------------------------------------------------------------------
(* CollectionDataset.__init__, in the order of the code.                   *)

\* line 444: the path sanitize_and_check_root_path goes on to check
SanitizedPath(root_path) ==
    ReplaceSlashes(root_path \o <<"/">>)

\* the name the file system resolves a path to: repeated separators count
\* as one, and a directory is named with one trailing separator
RECURSIVE CanonicalFrom(_, _, _)
CanonicalFrom(s, i, out) ==
    IF i > Len(s) THEN (IF out # <<>> /\ out[Len(out)] = "/" THEN out ELSE Append(out, "/"))
    ELSE IF s[i] = "/" /\ out # <<>> /\ out[Len(out)] = "/"
         THEN CanonicalFrom(s, i + 1, out)
         ELSE CanonicalFrom(s, i + 1, Append(out, s[i]))

Canonical(s) ==
    CanonicalFrom(s, 1, <<>>)

\* os.path.isdir(p).  dirs holds canonical names, so a path that is one of
\* them needs no resolving.
isdir(p) ==
    p \in dirs \/ Canonical(p) \in dirs

\* lines 441-447, given the sanitized path p of line 444
sanitize_and_check_root_path(p) ==
    [exc |-> IF isdir(p) THEN "" ELSE "AssertionError", value |-> p]

\* line 142: the argument is the module constant, so the sanitized path is one too
SanitizedImagesRoot ==
    SanitizedPath(IMAGES_ROOT_PATH)

\* the SELECT of lines 171 / 173 on the images table
execute_database_query(dataset_name, set_type_int, verify_all_sets_all_types) ==
    IF DATABASE_PATH \notin files
    THEN [exc |-> "AssertionError", rows |-> <<>>]
    ELSE [exc |-> "",
          rows |-> SelectSeq(catalog, LAMBDA r :
                      /\ r.dataset = dataset_name
                      /\ r.problem = 0
                      /\ (verify_all_sets_all_types \/ r.set_id = set_type_int))]

\* lines 194-198: self.dict, class id -> [(file_hash, relative_path, set_id, problem)]
RECURSIVE GroupRows(_, _, _)
GroupRows(rows, i, d) ==
    IF i > Len(rows) THEN d
    ELSE LET row == rows[i]
             val == [hash |-> row.file_hash, path |-> row.relative_path,
                     set_id |-> row.set_id, problem |-> row.problem]
         IN  IF HasKey(d, row.class_id)
             THEN LET j == CHOOSE j \in 1..Len(d) : d[j].k = row.class_id
                  IN  GroupRows(rows, i + 1, [d EXCEPT ![j].v = Append(@, val)])
             ELSE GroupRows(rows, i + 1, Append(d, [k |-> row.class_id, v |-> <<val>>]))

\* lines 200-212 without the identity test of line 206: every dictionary is
\* numbered in encounter order
BuildLabelDictEncounterOnly(dict, label_dict) ==
    IF label_dict # NoDict THEN label_dict
    ELSE List([i \in 1..Len(dict) |-> [k |-> dict[i].k, v |-> i - 1]])

\* lines 200-212: the label dictionary
BuildLabelDict(dict, label_dict) ==
    IF label_dict # NoDict THEN label_dict
    ELSE IF Range(Keys(dict)) = 0..(Len(dict) - 1)
         THEN List([i \in 1..Len(dict) |-> [k |-> i - 1, v |-> i - 1]])
         ELSE List([i \in 1..Len(dict) |-> [k |-> dict[i].k, v |-> i - 1]])

\* lines 214-217
NumClasses(dict, class_cap) ==
    IF Gt(Len(dict), class_cap) THEN class_cap ELSE Len(dict)

\* lines 219-224: the amount handed to _random_value
Amount(set_type, nrows, train_size, test_size) ==
    IF set_type = "train" /\ Gt(nrows, train_size) THEN train_size
    ELSE IF set_type \in {"validation", "test"} /\ Gt(nrows, test_size) THEN test_size
    ELSE Inf

\* lines 272-275
NumEachClass(amount, num_classes) ==
    IF amount = Inf THEN Inf ELSE Round(amount, num_classes)

\* lines 285-293: the values of one class that are taken, in shuffled order.
\* The quota is tested after an append, so one value is always taken.
RECURSIVE TakeValues(_, _, _, _)
TakeValues(values, i, num_each_class, out) ==
    IF i > Len(values) THEN out
    ELSE IF Ge(i, num_each_class) THEN Append(out, values[i])
    ELSE TakeValues(values, i + 1, num_each_class, Append(out, values[i]))

\* lines 277-297: the loop over dictionary.items().  st carries the five
\* parallel lists (as one list of records), the generator state, the count
\* of classes taken and the exception raised, if any.
RECURSIVE RandomValueLoop(_, _, _, _, _, _)
RandomValueLoop(dictionary, i, label_dict, num_classes, class_cap, st) ==
    IF i > Len(dictionary) THEN st
    ELSE LET key == dictionary[i].k
         IN  IF key \notin Range(Prefix(Keys(label_dict), num_classes))
             THEN IF num_classes # class_cap
                  THEN [st EXCEPT !.exc = "AssertionError"]
                  ELSE RandomValueLoop(dictionary, i + 1, label_dict, num_classes, class_cap, st)
             ELSE LET sh == shuffle(dictionary[i].v, st.rng)
                      taken == TakeValues(sh.seq, 1, st.num_each_class, <<>>)
                      st2 == [st EXCEPT
                                !.items = @ \o [j \in 1..Len(taken) |->
                                    [label |-> key, hash |-> taken[j].hash,
                                     path |-> taken[j].path, set_id |-> taken[j].set_id,
                                     problem_id |-> taken[j].problem]],
                                !.rng = sh.rng,
                                !.current_class_size = @ + 1]
                  IN  IF Ge(st2.current_class_size, num_classes) THEN st2
                      ELSE RandomValueLoop(dictionary, i + 1, label_dict, num_classes, class_cap, st2)

_random_value(dictionary, amount, label_dict, num_classes, class_cap, s) ==
    RandomValueLoop(dictionary, 1, label_dict, num_classes, class_cap,
        [items |-> <<>>, rng |-> s, current_class_size |-> 0, exc |-> "",
         num_each_class |-> NumEachClass(amount, num_classes)])

----------------------------------------------------------------------------
(* The instance.                                                           *)

\* a CollectionImage built at lines 227-232
CollectionImage(item, class_id) ==
    [relative_path |-> item.path, class_id |-> class_id, set_id |-> item.set_id,
     problem |-> item.problem_id, file_hash |-> item.hash,
     feature_vector |-> EmptyTensor]

NoImage ==
    [relative_path |-> <<>>, class_id |-> -1, set_id |-> -1, problem |-> -1,
     file_hash |-> "", feature_vector |-> EmptyTensor]

NoReport ==
    [missing_files |-> {}, store_file_missing |-> FALSE, missing_vectors |-> {},
     vector_type_error |-> FALSE]

\* no instance is bound: nothing was constructed yet
NoInstance ==
    [bound |-> FALSE, initialized_correctly |-> FALSE, has_images |-> FALSE,
     images |-> <<>>, label_dict |-> NoDict, num_classes |-> 0,
     root_path |-> <<>>, dataset_name |-> <<>>, set_type |-> "", input_type |-> "",
     vector_type |-> None, pipeline |-> None,
     sample_class_num |-> 0, sample_train_size |-> 0, sample_test_size |-> 0]

\* lines 330-336, for an index the assertion admits and the list holds
ImagePath(d, index) ==
    d.root_path \o d.dataset_name \o <<"/">> \o d.images[index + 1].relative_path

\* lines 338-351: returns whether every file exists, reports each missing one
verify_original_images_exist(d) ==
    LET missing == {ImagePath(d, i) : i \in 0..(Len(d.images) - 1)} \ files
    IN  [ok |-> missing = {}, missing_files |-> missing]

\* line 361
FeatureVectorsFilename(d) ==
    VECTORS_ROOT_PATH \o Chars(d.vector_type) \o <<"/">> \o d.dataset_name
        \o <<".", "h", "5">>

\* a difference taken against the characters of the file name instead of the
\* keys of the file: no hash is ever found
MissingListAgainstFilename(all_hashes, feature_vectors_hashes) ==
    all_hashes

\* line 384
MissingList(all_hashes, feature_vectors_hashes) ==
    all_hashes \ feature_vectors_hashes

\* lines 353-395.  ok is the return value; images are the items afterwards.
verify_feature_vectors_exist_and_load(d, skip_load) ==
    IF d.vector_type = None
    THEN [ok |-> FALSE, images |-> d.images,
          report |-> [NoReport EXCEPT !.vector_type_error = TRUE]]
    ELSE LET fn == FeatureVectorsFilename(d)
         IN  IF fn \notin DOMAIN store
             THEN [ok |-> FALSE, images |-> d.images,
                   report |-> [NoReport EXCEPT !.store_file_missing = TRUE]]
             ELSE LET all_hashes == {d.images[i].file_hash : i \in 1..Len(d.images)}
                      missing_list == MissingList(all_hashes, DOMAIN store[fn])
                  IN  IF missing_list # {}
                      THEN [ok |-> FALSE, images |-> d.images,
                            report |-> [NoReport EXCEPT !.missing_vectors = missing_list]]
                      ELSE [ok |-> TRUE,
                            images |-> IF skip_load THEN d.images
                                       ELSE List([i \in 1..Len(d.images) |->
                                              [d.images[i] EXCEPT !.feature_vector =
                                                  store[fn][d.images[i].file_hash]]]),
                            report |-> NoReport]

\* lines 246-259: the verification that sets initialized_correctly
Verify(d, verify_all_sets_all_types) ==
    IF ~verify_all_sets_all_types
    THEN IF d.input_type = "original"
         THEN LET o == verify_original_images_exist(d)
              IN  [d |-> [d EXCEPT !.initialized_correctly = o.ok],
                   report |-> [NoReport EXCEPT !.missing_files = o.missing_files]]
         ELSE LET f == verify_feature_vectors_exist_and_load(d, FALSE)
              IN  [d |-> [d EXCEPT !.initialized_correctly = f.ok, !.images = f.images],
                   report |-> f.report]
    ELSE LET o == verify_original_images_exist(d)
             f == verify_feature_vectors_exist_and_load(d, TRUE)
         IN  [d |-> [d EXCEPT !.initialized_correctly = o.ok /\ f.ok, !.images = f.images],
              report |-> [f.report EXCEPT !.missing_files = o.missing_files]]

\* lines 225-232: remap the labels through the dictionary and build the images
Materialize(items, label_dict) ==
    IF \E i \in 1..Len(items) : ~HasKey(label_dict, items[i].label)
    THEN [exc |-> "KeyError", images |-> <<>>]
    ELSE [exc |-> "",
          images |-> List([i \in 1..Len(items) |->
                        CollectionImage(items[i], Get(label_dict, items[i].label))])]

Raised(e, s) ==
    [exc |-> e, d |-> NoInstance, rng |-> s, report |-> NoReport, rows |-> <<>>]

\* a constructor that caps the classes whatever full_dataset says
SampleClassNumAlwaysCapped(full_dataset) ==
    sample_class_num

\* lines 186-193: self.sample_class_num
SampleClassNum(full_dataset) ==
    IF full_dataset THEN Inf ELSE sample_class_num

\* lines 186-193: self.sample_train_size
SampleTrainSize(full_dataset) ==
    IF full_dataset THEN Inf ELSE sample_train_size

\* lines 186-193: self.sample_test_size
SampleTestSize(full_dataset) ==
    IF full_dataset THEN Inf ELSE sample_test_size

\* lines 186-264, once the query returned rows
InitFromRows(a, root_path, rows, s) ==
    LET class_cap == SampleClassNum(a.full_dataset)
        train_size == SampleTrainSize(a.full_dataset)
        test_size == SampleTestSize(a.full_dataset)
        dict == GroupRows(rows, 1, <<>>)
        label_dict == BuildLabelDict(dict, a.label_dict)
        num_classes == NumClasses(dict, class_cap)
        amount == Amount(a.set_type, Len(rows), train_size, test_size)
        rv == _random_value(dict, amount, label_dict, num_classes, class_cap, s)
        m == Materialize(rv.items, label_dict)
        d == [bound |-> TRUE, initialized_correctly |-> FALSE, has_images |-> TRUE,
              images |-> m.images, label_dict |-> label_dict,
              num_classes |-> num_classes,
              root_path |-> root_path, dataset_name |-> a.dataset_name,
              set_type |-> a.set_type, input_type |-> a.input_type,
              vector_type |-> a.vector_type, pipeline |-> a.pipeline,
              sample_class_num |-> class_cap, sample_train_size |-> train_size,
              sample_test_size |-> test_size]
        v == Verify(d, a.verify_all_sets_all_types)
    IN  IF rv.exc # "" THEN Raised(rv.exc, rv.rng)
        ELSE IF m.exc # "" THEN Raised(m.exc, rv.rng)
        ELSE [exc |-> "", d |-> v.d, rng |-> rv.rng, report |-> v.report, rows |-> rows]

\* a constructor that leaves the generator as it found it
ReseedSkipped(s0) ==
    s0

\* line 137: random.seed(27), whatever the state s0 before it
Reseed(s0) ==
    seed(SEED)

\* CollectionDataset.__init__ (lines 124-264) entered with generator state s0.
\* exc is the exception that leaves the constructor, d the instance it built.
\* line 143 compares a length with "", which is never equal: it always passes.
CollectionDataset(a, s0) ==
    LET s == Reseed(s0)
        root == sanitize_and_check_root_path(SanitizedImagesRoot)
    IN  IF root.exc # "" THEN Raised(root.exc, s)
        ELSE IF a.set_type \notin Range(SET_TYPES) THEN Raised("AssertionError", s)
        ELSE IF a.input_type \notin Range(INPUT_TYPES) THEN Raised("AssertionError", s)
        ELSE IF a.input_type = "features" /\ a.vector_type \notin Range(VECTOR_TYPES)
             THEN Raised("AssertionError", s)
        ELSE LET q == execute_database_query(a.dataset_name, IndexOf(SET_TYPES, a.set_type),
                                             a.verify_all_sets_all_types)
             IN  IF q.exc # "" THEN Raised(q.exc, s)
                 ELSE IF Len(q.rows) = 0
                      THEN [exc |-> "", rng |-> s, report |-> NoReport, rows |-> <<>>,
                            d |-> [NoInstance EXCEPT
                                     !.bound = TRUE, !.root_path = root.value,
                                     !.dataset_name = a.dataset_name,
                                     !.set_type = a.set_type, !.input_type = a.input_type,
                                     !.vector_type = a.vector_type,
                                     !.pipeline = a.pipeline]]
                      ELSE InitFromRows(a, root.value, q.rows, s)

----------------------------------------------------------------------------
(* CollectionDataset.verify_everything (lines 465-505).                    *)

\* the task names the catalog may hold, in the order of ORDER BY dataset
DatasetOrder ==
    << <<"t", "1">>, <<"t", "2">>, <<"t", "r", "a", "i", "n">> >>

\* a task name as the value the constructor's tests on set_type see: the
\* split it spells, if any
StrOf(name) ==
    IF name = <<"t", "r", "a", "i", "n">> THEN "train"
    ELSE IF name = <<"t", "e", "s", "t">> THEN "test"
    ELSE IF name = <<"v", "a", "l", "i", "d", "a", "t", "i", "o", "n">> THEN "validation"
    ELSE "<task name>"

\* lines 473-475: select distinct dataset FROM images order by dataset
DatasetList ==
    SelectSeq(DatasetOrder, LAMBDA n : \E i \in 1..Len(catalog) : catalog[i].dataset = n)

\* lines 482-488: the call binds its four positional arguments to the
\* first four parameters of __init__ (line 126-129): dataset_name, set_type,
\* input_type, vector_type
VerifyEverythingArgs(root_path, dataset) ==
    [dataset_name |-> root_path, set_type |-> StrOf(dataset), input_type |-> "train",
     vector_type |-> "original", pipeline |-> "resnet50_tf_pipeline",
     label_dict |-> NoDict, verify_all_sets_all_types |-> TRUE, full_dataset |-> FALSE]

\* lines 481-491: one pass of the loop body, given the outcome c of the
\* construction of line 482 and the task name
VerifyEverythingPass(c, broken, dataset) ==
    [exc |-> c.exc, rng |-> c.rng,
     broken |-> IF c.exc = "" /\ ~c.d.initialized_correctly THEN Append(broken, dataset)
                ELSE broken]

\* lines 480-491: the loop over dataset_list; l is the outcome of the passes
\* made so far, and an exception ends the loop
RECURSIVE VerifyEverythingLoop(_, _, _, _)
VerifyEverythingLoop(dataset_list, i, root_path, l) ==
    IF i > Len(dataset_list) \/ l.exc # "" THEN l
    ELSE VerifyEverythingLoop(dataset_list, i + 1, root_path,
            VerifyEverythingPass(
                CollectionDataset(VerifyEverythingArgs(root_path, dataset_list[i]), l.rng),
                l.broken, dataset_list[i]))

\* lines 465-505, entered with generator state s
verify_everything(root_path, s) ==
    LET root == sanitize_and_check_root_path(SanitizedPath(root_path))
    IN  IF root.exc # "" THEN [exc |-> root.exc, value |-> FALSE, broken |-> <<>>, rng |-> s]
        ELSE IF DATABASE_PATH \notin files
        THEN [exc |-> "AssertionError", value |-> FALSE, broken |-> <<>>, rng |-> s]
        ELSE LET l == VerifyEverythingLoop(DatasetList, 1, root.value,
                          [exc |-> "", broken |-> <<>>, rng |-> s])
             IN  [exc |-> l.exc, value |-> l.exc = "" /\ Len(l.broken) = 0,
                  broken |-> l.broken, rng |-> l.rng]

----------------------------------------------------------------------------
(* Outcomes of the operations on an instance.                              *)

NoInput ==
    [kind |-> "", array |-> EmptyTensor, pipeline |-> None, path |-> <<>>]

NoResult ==
    [op |-> "", index |-> 0, kind |-> "", exc |-> "", input |-> NoInput,
     label |-> -1, path |-> <<>>, entry |-> NoImage, len |-> -1, ok |-> FALSE,
     skip_load |-> FALSE]

Raise(op, index, e) ==
    [NoResult EXCEPT !.op = op, !.index = index, !.kind = "raise", !.exc = e]

Return(op, index) ==
    [NoResult EXCEPT !.op = op, !.index = index, !.kind = "return"]

\* a length that does not look at initialized_correctly
lenUnchecked(d) ==
    [Return("__len__", 0) EXCEPT !.len = Len(d.images)]

\* lines 300-303
len(d) ==
    IF ~d.initialized_correctly THEN Raise("__len__", 0, "AssertionError")
    ELSE [Return("__len__", 0) EXCEPT !.len = Len(d.images)]

\* lines 330-336.  self.images is missing after the early return of line 180.
original_image_path_for_index(d, index) ==
    IF ~d.has_images THEN Raise("original_image_path_for_index", index, "AttributeError")
    ELSE IF ~(0 <= index /\ index <= Len(d.images))
         THEN Raise("original_image_path_for_index", index, "AssertionError")
    ELSE IF index >= Len(d.images)
         THEN Raise("original_image_path_for_index", index, "IndexError")
    ELSE [Return("original_image_path_for_index", index) EXCEPT !.path = ImagePath(d, index)]

\* lines 397-402
get_entry_for_index(d, index) ==
    IF ~d.initialized_correctly THEN Raise("get_entry_for_index", index, "AssertionError")
    ELSE IF ~(0 <= index /\ index <= Len(d.images))
         THEN Raise("get_entry_for_index", index, "AssertionError")
    ELSE IF index >= Len(d.images)
         THEN Raise("get_entry_for_index", index, "IndexError")
    ELSE [Return("get_entry_for_index", index) EXCEPT !.entry = d.images[index + 1]]

\* lines 305-328.  image_tensor is assigned only under "if self.pipeline".
getitem(d, index) ==
    IF ~d.initialized_correctly THEN Raise("__getitem__", index, "AssertionError")
    ELSE IF ~(0 <= index /\ index <= Len(d.images))
         THEN Raise("__getitem__", index, "AssertionError")
    ELSE IF d.input_type = "features"
         THEN IF index >= Len(d.images) THEN Raise("__getitem__", index, "IndexError")
              ELSE [Return("__getitem__", index) EXCEPT
                      !.input = [NoInput EXCEPT !.kind = "feature_vector",
                                   !.array = d.images[index + 1].feature_vector],
                      !.label = d.images[index + 1].class_id]
    ELSE LET p == original_image_path_for_index(d, index)
         IN  IF p.kind = "raise" THEN Raise("__getitem__", index, p.exc)
             ELSE IF p.path \notin files
                  THEN Raise("__getitem__", index, "FileNotFoundError")
             ELSE IF d.pipeline = None
                  THEN Raise("__getitem__", index, "UnboundLocalError")
             ELSE [Return("__getitem__", index) EXCEPT
                     !.input = [kind |-> "pipeline_output", array |-> EmptyTensor,
                                pipeline |-> d.pipeline, path |-> p.path],
                     !.label = d.images[index + 1].class_id]

----------------------------------------------------------------------------
(* utils.py: divide_integer_K.                                             *)

\* a quotient rounded to the nearest integer instead of truncated
IntOfQuotientRounded(N, K) ==
    Round(N, K)

\* int(N / K): true division, then truncation toward zero
IntOfQuotient(N, K) ==
    IF N >= 0 THEN N \div K ELSE -((-N) \div K)

\* lines 76-84: the array before the optional shuffle.  N % K is Python's
\* remainder, which has the sign of K.
BaseArray(N, K) ==
    List([i \in 1..K |-> IntOfQuotient(N, K) + (IF i <= N % K THEN 1 ELSE 0)])

\* the bijections of 1..K: the orders np.random.shuffle can leave
Perms(K) ==
    {f \in [1..K -> 1..K] : \A i, j \in 1..K : f[i] = f[j] => i = j}

\* lines 74-89.  perm is the permutation the numpy generator, whose state the
\* function does not control, happens to apply.
divide_integer_K(N, K, shuff, perm) ==
    LET array == BaseArray(N, K)
    IN  IF shuff THEN List([i \in 1..K |-> array[perm[i]]]) ELSE array

----------------------------------------------------------------------------
(* utils.py: get_files_and_labels.                                         *)

Whitespace ==
    {" ", "\n", "\t"}

Digits ==
    <<"0", "1", "2", "3", "4", "5", "6", "7", "8", "9">>

\* str.split() with no argument: the maximal runs of non-whitespace.
\* cur is the token being read.
RECURSIVE SplitFrom(_, _, _, _)
SplitFrom(line, i, cur, out) ==
    IF i > Len(line) THEN (IF cur = <<>> THEN out ELSE Append(out, cur))
    ELSE IF line[i] \in Whitespace
         THEN SplitFrom(line, i + 1, <<>>, IF cur = <<>> THEN out ELSE Append(out, cur))
         ELSE SplitFrom(line, i + 1, Append(cur, line[i]), out)

\* line.strip().split()
Split(line) ==
    SplitFrom(line, 1, <<>>, <<>>)

RECURSIVE DigitsValue(_, _, _)
DigitsValue(tok, i, v) ==
    IF i > Len(tok) THEN v
    ELSE DigitsValue(tok, i + 1, 10 * v + IndexOf(Digits, tok[i]))

\* int(token): an optional sign and decimal digits; anything else is a ValueError
ParseInt(tok) ==
    LET signed == Len(tok) >= 1 /\ tok[1] \in {"-", "+"}
        body == IF signed THEN Tail(tok) ELSE tok
    IN  IF Len(body) = 0 \/ \E i \in 1..Len(body) : body[i] \notin Range(Digits)
        THEN [ok |-> FALSE, value |-> 0]
        ELSE [ok |-> TRUE,
              value |-> IF signed /\ tok[1] = "-" THEN -DigitsValue(body, 1, 0)
                        ELSE DigitsValue(body, 1, 0)]

\* lines 18-20: the loop of read_file over the lines from position i;
\* data[0] and data[1] raise IndexError on a line with fewer fields, int()
\* raises ValueError, and fields after the second are never read
RECURSIVE ReadLinesFrom(_, _, _)
ReadLinesFrom(lines, i, container) ==
    IF i > Len(lines) THEN [exc |-> "", value |-> container]
    ELSE LET data == Split(lines[i])
         IN  IF Len(data) < 2 THEN [exc |-> "IndexError", value |-> <<>>]
             ELSE IF ~ParseInt(data[2]).ok THEN [exc |-> "ValueError", value |-> <<>>]
             ELSE ReadLinesFrom(lines, i + 1,
                      Append(container, <<data[1], ParseInt(data[2]).value>>))

\* lines 15-21, on a file with these lines
read_file(lines) ==
    ReadLinesFrom(lines, 1, <<>>)

\* os.path.join(a, b) on POSIX
PathJoin(a, b) ==
    IF Len(b) >= 1 /\ b[1] = "/" THEN b
    ELSE IF Len(a) = 0 \/ a[Len(a)] = "/" THEN a \o b
    ELSE a \o <<"/">> \o b

\* a call that always starts numbering at 0, whatever the dictionary holds
NextLabelToUseZero(label_dict) ==
    0

\* lines 110-113
NextLabelToUse(label_dict) ==
    IF Len(label_dict) = 0 THEN 0 ELSE label_dict[Len(label_dict)].v + 1

\* line 120
TooManyTokens(tokens) ==
    Len(tokens) > 2

\* a body of the loop that never skips an unknown label
SkipUnknownNever(flag_unknown_label) ==
    FALSE

\* line 132
SkipUnknown(flag_unknown_label) ==
    flag_unknown_label

\* lines 117-143: the body of the loop for one line.  st holds files, labels,
\* label_dict, next_label_to_use and the number of lines the except clause
\* reported.
LineStep(line, st, base_file_path, dset_idx, flag_unknown_label) ==
    LET tokens == Split(line)
    IN  IF TooManyTokens(tokens) THEN st
        ELSE IF Len(tokens) # 2 THEN [st EXCEPT !.reported = @ + 1]
        ELSE LET n == ParseInt(tokens[2])
                 individual_label == <<dset_idx, n.value>>
             IN  IF ~n.ok THEN [st EXCEPT !.reported = @ + 1]
                 ELSE IF ~HasKey(st.label_dict, individual_label)
                      THEN IF SkipUnknown(flag_unknown_label) THEN st
                           ELSE [st EXCEPT
                                   !.label_dict = Append(@, [k |-> individual_label,
                                                             v |-> st.next_label_to_use]),
                                   !.next_label_to_use = @ + 1,
                                   !.files = Append(@, PathJoin(base_file_path, tokens[1])),
                                   !.labels = Append(@, st.next_label_to_use)]
                      ELSE [st EXCEPT
                              !.files = Append(@, PathJoin(base_file_path, tokens[1])),
                              !.labels = Append(@, Get(st.label_dict, individual_label))]

\* the states after 0, 1, ..., len(lines) lines
RECURSIVE LineStates(_, _, _, _, _, _)
LineStates(lines, i, trace, base_file_path, dset_idx, flag_unknown_label) ==
    IF i > Len(lines) THEN trace
    ELSE LineStates(lines, i + 1,
            Append(trace, LineStep(lines[i], trace[Len(trace)], base_file_path,
                                   dset_idx, flag_unknown_label)),
            base_file_path, dset_idx, flag_unknown_label)

\* lines 107-144: the call, as the sequence of its loop states
get_files_and_labels(lines, base_file_path, files_in, labels_in, label_dict, dset_idx, flag_unknown_label) ==
    LineStates(lines, 1,
        <<[files |-> files_in, labels |-> labels_in, label_dict |-> label_dict,
           next_label_to_use |-> NextLabelToUse(label_dict), reported |-> 0]>>,
        base_file_path, dset_idx, flag_unknown_label)

----------------------------------------------------------------------------
(* setup and makedirectory (utils.py lines 33-57, 69-71) on a file system  *)
(* fs = [files, dirs]: the names of the files, and the canonical names of  *)
(* the directories, that exist.                                            *)

\* a value of datetime.now().strftime(r'%d%m%y_%H%M%S') (line 38)
TIMESTAMP ==
    <<"0", "1", "0", "1", "2", "6", "_", "1", "2", "0", "0", "0", "0">>

\* the literals of setup (lines 36, 46, 50-53)
TEST_PREFIX ==
    <<"T", "e", "s", "t", "_">>

CONFIG_MODEL_JSON ==
    <<"c", "o", "n", "f", "i", "g", "_", "m", "o", "d", "e", "l", ".", "j", "s", "o", "n">>

STUDENT_TASK_MAPPING_ACC ==
    <<"s", "t", "u", "d", "e", "n", "t", "_", "t", "a", "s", "k", "_", "m", "a", "p", "p", "i", "n", "g", "_", "a", "c", "c">>

STUDENT_TASK_MAPPING_ACC_PER_TASK ==
    <<"s", "t", "u", "d", "e", "n", "t", "_", "t", "a", "s", "k", "_", "m", "a", "p", "p", "i", "n", "g", "_", "a", "c", "c", "_", "p", "e", "r", "_", "t", "a", "s", "k">>

TEACHER_ACC ==
    <<"t", "e", "a", "c", "h", "e", "r", "_", "a", "c", "c">>

STUDENT_ACC ==
    <<"s", "t", "u", "d", "e", "n", "t", "_", "a", "c", "c">>

IsPrefix(p, s) ==
    Len(p) <= Len(s) /\ SubSeq(s, 1, Len(p)) = p

\* the name a path to a file resolves to: canonical, no trailing separator
FileName(p) ==
    SubSeq(Canonical(p), 1, Len(Canonical(p)) - 1)

\* a directory of canonical name D with its parents
AncestorDirs(D) ==
    {SubSeq(D, 1, i) : i \in {j \in 1..Len(D) : D[j] = "/"}}

\* os.path.isdir(p) on fs
IsDirIn(fs, p) ==
    Canonical(p) \in fs.dirs

\* os.path.exists(p) on fs: a path with a trailing separator names no file
ExistsIn(fs, p) ==
    \/ IsDirIn(fs, p)
    \/ p # <<>> /\ p[Len(p)] # "/" /\ FileName(p) \in fs.files

\* os.makedirs(p): the directory and its missing parents; an OSError when
\* a file is in the way
makedirs(fs, p) ==
    IF \E A \in AncestorDirs(Canonical(p)) : SubSeq(A, 1, Len(A) - 1) \in fs.files
    THEN [exc |-> "OSError", fs |-> fs]
    ELSE [exc |-> "", fs |-> [fs EXCEPT !.dirs = @ \cup AncestorDirs(Canonical(p))]]

\* lines 69-71
makedirectory(fs, dir_path) ==
    IF ~ExistsIn(fs, dir_path) THEN makedirs(fs, dir_path) ELSE [exc |-> "", fs |-> fs]

\* a setup that leaves an existing run directory as it is
rmtreeSkipped(fs, p) ==
    fs

\* shutil.rmtree(p), for a p that is a directory: it goes with all below it
rmtree(fs, p) ==
    [files |-> {f \in fs.files : ~IsPrefix(Canonical(p), f)},
     dirs |-> {d \in fs.dirs : ~IsPrefix(Canonical(p), d)}]

\* open(p, 'w') and close: the file exists afterwards
OpenForWriting(fs, p) ==
    IF IsDirIn(fs, p) THEN [exc |-> "IsADirectoryError", fs |-> fs]
    ELSE IF \E A \in AncestorDirs(FileName(p)) : A \notin fs.dirs
         THEN [exc |-> "FileNotFoundError", fs |-> fs]
         ELSE [exc |-> "", fs |-> [fs EXCEPT !.files = @ \cup {FileName(p)}]]

\* '%d' % n for n >= 0
RECURSIVE IntStr(_)
IntStr(n) ==
    IF n < 10 THEN <<Digits[n + 1]>> ELSE IntStr(n \div 10) \o <<Digits[(n % 10) + 1]>>

\* lines 35-38: Test_<test_num>, or the time of the call
SaveName(test_num, now) ==
    IF test_num >= 0 THEN TEST_PREFIX \o IntStr(test_num) ELSE now

\* line 39: '%s/%s/%s/' % (dir_results, dset_name, save_name)
DirSave(args, now) ==
    args.dir_results \o <<"/">> \o args.dset_name \o <<"/">>
        \o SaveName(args.test_num, now) \o <<"/">>

\* lines 50-53: '%s/%s.txt' % (dir_save, name)
AccPath(dir_save, name) ==
    dir_save \o <<"/">> \o name \o <<".", "t", "x", "t">>

\* lines 33-57 on the file system fs, called at time now
setup(fs, args, now) ==
    LET m1 == makedirectory(fs, args.dir_results)
        dir_save == DirSave(args, now)
        fs2 == IF ExistsIn(m1.fs, dir_save) /\ IsDirIn(m1.fs, dir_save)
               THEN rmtree(m1.fs, dir_save) ELSE m1.fs
        m2 == makedirectory(fs2, dir_save)
        w == OpenForWriting(m2.fs, dir_save \o CONFIG_MODEL_JSON)
    IN  IF m1.exc # "" THEN [exc |-> m1.exc, fs |-> m1.fs, value |-> args]
        ELSE IF m2.exc # "" THEN [exc |-> m2.exc, fs |-> m2.fs, value |-> args]
        ELSE IF w.exc # "" THEN [exc |-> w.exc, fs |-> w.fs, value |-> args]
        ELSE [exc |-> "", fs |-> w.fs,
              value |-> [dir_results |-> args.dir_results, dset_name |-> args.dset_name,
                         test_num |-> args.test_num,
                         acc_tmapping_student |-> AccPath(dir_save, STUDENT_TASK_MAPPING_ACC),
                         acc_tmapping_student_per_task |->
                             AccPath(dir_save, STUDENT_TASK_MAPPING_ACC_PER_TASK),
                         acc_teacher |-> AccPath(dir_save, TEACHER_ACC),
                         acc_student |-> AccPath(dir_save, STUDENT_ACC),
                         dir_save |-> dir_save]]

----------------------------------------------------------------------------
(* The environment: catalogs, image files and feature-vector stores.       *)

Tasks ==
    {<<"t", "1">>, <<"t", "2">>}

\* raw class ids of the catalog: 0..2 can form a contiguous range, 4 cannot
ClassIds ==
    {0, 1, 2, 4}

Hashes ==
    <<"h1", "h2", "h3", "h4", "h5", "h6", "h7", "h8", "h9">>

RelPathOf(i) ==
    <<"i", Digits[i + 1], ".", "j", "p", "g">>

\* the feature array stored for the i-th hash
ArrayOf(i) ==
    <<i>>

RngStates ==
    0..(RngMod - 1)

\* the columns dataset, set_id and problem of the i-th row of a catalog of
\* layout lay: a whole catalog of one task and split, or a mixed one
Layout(lay, i) ==
    IF lay = "mixed"
    THEN CASE i % 5 = 1 -> [dataset |-> <<"t", "1">>, set_id |-> 0, problem |-> 0]
           [] i % 5 = 2 -> [dataset |-> <<"t", "1">>, set_id |-> 0, problem |-> 1]
           [] i % 5 = 3 -> [dataset |-> <<"t", "1">>, set_id |-> 1, problem |-> 0]
           [] i % 5 = 4 -> [dataset |-> <<"t", "1">>, set_id |-> 0, problem |-> 0]
           [] OTHER -> [dataset |-> <<"t", "2">>, set_id |-> 0, problem |-> 0]
    ELSE [dataset |-> <<"t", "1">>, set_id |-> IndexOf(SET_TYPES, lay), problem |-> 0]

Layouts ==
    {"train", "validation", "mixed"}

\* a catalog: row i has class id cs[i], the i-th hash and the i-th path
Catalog(cs, lay) ==
    List([i \in 1..Len(cs) |->
        [file_hash |-> Hashes[i], relative_path |-> RelPathOf(i), class_id |-> cs[i],
         set_id |-> Layout(lay, i).set_id, problem |-> Layout(lay, i).problem,
         dataset |-> Layout(lay, i).dataset]])

ClassSeqs(n) ==
    UNION {[1..m -> ClassIds] : m \in 0..n}

\* every image file a catalog names
ImageFilesOf(cat) ==
    {IMAGES_ROOT_PATH \o cat[i].dataset \o <<"/">> \o cat[i].relative_path :
        i \in 1..Len(cat)}

StoreFilename(vt, name) ==
    VECTORS_ROOT_PATH \o Chars(vt) \o <<"/">> \o name \o <<".", "h", "5">>

\* the store file of a task with a vector for each of the hashes in hs
StoreOf(hs) ==
    [h \in hs |-> ArrayOf(IndexOf(Hashes, h) + 1)]

\* a store with, for both vector types and every task, a vector for every
\* hash of the catalog
FullStore(cat) ==
    [fn \in {StoreFilename(vt, name) : vt \in Range(VECTOR_TYPES), name \in Tasks} |->
        StoreOf({cat[i].file_hash : i \in 1..Len(cat)})]

NoArgs ==
    [dataset_name |-> <<>>, set_type |-> "", input_type |-> "", vector_type |-> None,
     pipeline |-> None, label_dict |-> NoDict, verify_all_sets_all_types |-> FALSE,
     full_dataset |-> FALSE]

NoCall ==
    [valid |-> FALSE, args |-> NoArgs, rows |-> <<>>, exc |-> "", completed |-> FALSE,
     label_dict |-> NoDict, images |-> <<>>, initialized_correctly |-> FALSE]

NoPart ==
    [N |-> 0, K |-> 0, shuff |-> FALSE, array |-> <<>>]

NoAcc ==
    [files |-> <<>>, labels |-> <<>>, label_dict |-> <<>>]

NoGfl ==
    [lines |-> <<>>, dset_idx |-> 0, flag_unknown_label |-> FALSE,
     base_file_path |-> <<>>, trace |-> <<>>]

NoRet ==
    [op |-> "", arg |-> <<>>, exc |-> "", value |-> <<>>, broken |-> <<>>,
     before |-> {}]

----------------------------------------------------------------------------
(* Actions.                                                                *)

\* x = CollectionDataset(...): the whole constructor.  When it raises, the
\* caller's variable keeps the instance it held.
Construct(a) ==
    LET r == CollectionDataset(a, rng)
    IN  /\ rng' = r.rng
        /\ ds' = IF r.exc = "" THEN r.d ELSE ds
        /\ result' = IF r.exc = "" THEN Return("__init__", 0)
                     ELSE Raise("__init__", 0, r.exc)
        /\ reported' = r.report
        /\ call' = [valid |-> TRUE, args |-> a, rows |-> r.rows, exc |-> r.exc,
                    completed |-> r.exc = "" /\ r.d.has_images,
                    label_dict |-> r.d.label_dict, images |-> r.d.images,
                    initialized_correctly |-> r.d.initialized_correctly]
        /\ UNCHANGED <<catalog, files, dirs, store, part, acc, gfl, ret>>

\* constructions as the export script makes them: features, xception
ConstructSampled ==
    \E st \in Range(SET_TYPES), full \in BOOLEAN :
        /\ Construct([dataset_name |-> <<"t", "1">>, set_type |-> st,
                      input_type |-> "features", vector_type |-> "xception",
                      pipeline |-> "xception_tf_pipeline", label_dict |-> NoDict,
                      verify_all_sets_all_types |-> FALSE, full_dataset |-> full])
        /\ UNCHANGED last

\* len(x), x[index], x.original_image_path_for_index(index),
\* x.get_entry_for_index(index) on the instance the caller holds
CallLen ==
    /\ ds.bound
    /\ result' = len(ds)
    /\ UNCHANGED <<catalog, files, dirs, store, rng, ds, reported, call, last, part, acc, gfl, ret>>

Indexes ==
    (-1)..(Len(ds.images) + 1)

CallGetItem ==
    /\ ds.bound
    /\ \E index \in Indexes : result' = getitem(ds, index)
    /\ UNCHANGED <<catalog, files, dirs, store, rng, ds, reported, call, last, part, acc, gfl, ret>>

CallOriginalImagePathForIndex ==
    /\ ds.bound
    /\ \E index \in Indexes : result' = original_image_path_for_index(ds, index)
    /\ UNCHANGED <<catalog, files, dirs, store, rng, ds, reported, call, last, part, acc, gfl, ret>>

CallGetEntryForIndex ==
    /\ ds.bound
    /\ \E index \in Indexes : result' = get_entry_for_index(ds, index)
    /\ UNCHANGED <<catalog, files, dirs, store, rng, ds, reported, call, last, part, acc, gfl, ret>>

\* x.verify_feature_vectors_exist_and_load(skip_load) on an instance that has items
CallVerifyFeatureVectors ==
    /\ ds.bound /\ ds.has_images
    /\ \E skip_load \in BOOLEAN :
         LET f == verify_feature_vectors_exist_and_load(ds, skip_load)
         IN  /\ ds' = [ds EXCEPT !.images = f.images]
             /\ reported' = f.report
             /\ result' = [Return("verify_feature_vectors_exist_and_load", 0) EXCEPT
                             !.ok = f.ok, !.skip_load = skip_load]
    /\ UNCHANGED <<catalog, files, dirs, store, rng, call, last, part, acc, gfl, ret>>

\* the store is written by other programs: a vector disappears from a file
StoreDrop ==
    /\ \E fn \in DOMAIN store : \E h \in DOMAIN store[fn] :
         store' = [store EXCEPT ![fn] = [x \in (DOMAIN store[fn]) \ {h} |-> store[fn][x]]]
    /\ UNCHANGED <<catalog, files, dirs, rng, ds, result, reported, call, last, part, acc, gfl, ret>>

\* constructions of the train split in either input mode, with and without
\* a pipeline
ConstructAccess ==
    \E it \in Range(INPUT_TYPES), pl \in {"resnet50_tf_pipeline", None} :
        /\ Construct([dataset_name |-> <<"t", "1">>, set_type |-> "train",
                      input_type |-> it, vector_type |-> "resnet50", pipeline |-> pl,
                      label_dict |-> NoDict, verify_all_sets_all_types |-> FALSE,
                      full_dataset |-> FALSE])
        /\ UNCHANGED last

\* constructions of the train split in either input mode, with and without
\* a vector type
ConstructForVerify ==
    \E it \in Range(INPUT_TYPES), vt \in {"resnet50", None} :
        /\ Construct([dataset_name |-> <<"t", "1">>, set_type |-> "train",
                      input_type |-> it, vector_type |-> vt,
                      pipeline |-> "resnet50_tf_pipeline",
                      label_dict |-> NoDict, verify_all_sets_all_types |-> FALSE,
                      full_dataset |-> FALSE])
        /\ UNCHANGED last

----------------------------------------------------------------------------
(* Spec: sampling and label dictionaries over catalogs of up to MaxRows    *)
(* rows, every image file and every feature vector present.                *)

Init ==
    /\ \E cs \in ClassSeqs(MaxRows), lay \in Layouts : catalog = Catalog(cs, lay)
    /\ files = ImageFilesOf(catalog) \cup {DATABASE_PATH}
    /\ dirs = {IMAGES_ROOT_PATH}
    /\ store = FullStore(catalog)
    /\ rng = 0
    /\ ds = NoInstance
    /\ result = NoResult
    /\ reported = NoReport
    /\ call = NoCall
    /\ last = NoCall
    /\ part = NoPart
    /\ acc = NoAcc
    /\ gfl = NoGfl
    /\ ret = NoRet

Next ==
    ConstructSampled

Spec ==
    Init /\ [][Next]_vars

----------------------------------------------------------------------------
(* SpecRepeat: repeated constructions with other uses of the random        *)
(* module in between, over catalogs of up to MaxRepeatRows train rows.     *)

MaxRepeatRows ==
    3

\* a construction of the train split, the one before it remembered in last
ConstructAgain ==
    \E full \in BOOLEAN :
        /\ Construct([dataset_name |-> <<"t", "1">>, set_type |-> "train",
                      input_type |-> "features", vector_type |-> "xception",
                      pipeline |-> "xception_tf_pipeline", label_dict |-> NoDict,
                      verify_all_sets_all_types |-> FALSE, full_dataset |-> full])
        /\ last' = call

\* other code draws from the random module
UseRandom ==
    /\ rng' = RngNext(rng)
    /\ UNCHANGED <<catalog, files, dirs, store, ds, result, reported, call, last,
                   part, acc, gfl, ret>>

InitRepeat ==
    /\ \E cs \in ClassSeqs(MaxRepeatRows) : catalog = Catalog(cs, "train")
    /\ files = ImageFilesOf(catalog) \cup {DATABASE_PATH}
    /\ dirs = {IMAGES_ROOT_PATH}
    /\ store = FullStore(catalog)
    /\ rng \in RngStates
    /\ ds = NoInstance
    /\ result = NoResult
    /\ reported = NoReport
    /\ call = NoCall
    /\ last = NoCall
    /\ part = NoPart
    /\ acc = NoAcc
    /\ gfl = NoGfl
    /\ ret = NoRet

NextRepeat ==
    \/ ConstructAgain
    \/ UseRandom

SpecRepeat ==
    InitRepeat /\ [][NextRepeat]_vars

----------------------------------------------------------------------------
(* Claims about sampling and label dictionaries.                           *)

\* number of occurrences of x in the sequence s
Count(s, x) ==
    Cardinality({i \in 1..Len(s) : s[i] = x})

\* the (file_hash, relative_path) pairs of rows or of images
HashPaths(s) ==
    List([i \in 1..Len(s) |-> <<s[i].file_hash, s[i].relative_path>>])

\* an image without the feature vector a store may have filled in
Sampled(images) ==
    List([i \in 1..Len(images) |-> [images[i] EXCEPT !.feature_vector = EmptyTensor]])

RawClassIds(rows) ==
    {rows[i].class_id : i \in 1..Len(rows)}

\* the last construction ran to the end in bounded mode, building its own dictionary
BoundedCall ==
    call.completed /\ ~call.args.full_dataset /\ call.args.label_dict = NoDict

\* C1: in bounded mode without an external label dictionary a constructed
\* instance keeps at most sample_class_num classes, at most sample_train_size
\* items for the train split and at most sample_test_size items for the
\* validation and test splits.
C1_BoundedCaps ==
    BoundedCall =>
        /\ Cardinality({ds.images[i].class_id : i \in 1..Len(ds.images)}) <= sample_class_num
        /\ call.args.set_type = "train" => Len(ds.images) <= sample_train_size
        /\ call.args.set_type \in {"validation", "test"} =>
                Len(ds.images) <= sample_test_size

\* C2: with full_dataset set and no external label dictionary the
\* (file_hash, relative_path) pairs of the items are, as a multiset, those of
\* the queried rows.
C2_FullDatasetLossless ==
    (call.completed /\ call.args.full_dataset /\ call.args.label_dict = NoDict) =>
        /\ Len(ds.images) = Len(call.rows)
        /\ \A x \in Range(HashPaths(call.rows)) \cup Range(HashPaths(ds.images)) :
                Count(HashPaths(ds.images), x) = Count(HashPaths(call.rows), x)

\* a full-dataset construction over more classes than the class cap and more
\* rows than the validation cap
C2_Witness ==
    /\ call.completed /\ call.args.full_dataset /\ call.args.label_dict = NoDict
    /\ call.args.set_type = "validation"
    /\ Len(call.rows) > sample_test_size
    /\ Cardinality(RawClassIds(call.rows)) > sample_class_num
    /\ Len(ds.images) = Len(call.rows)

\* C3: two constructions with the same arguments over the same rows yield
\* the same label dictionary and the same sequence of sampled items,
\* whatever the generator state before each.
C3_Reproducible ==
    (call.completed /\ last.completed /\ call.args = last.args /\ call.rows = last.rows) =>
        /\ call.label_dict = last.label_dict
        /\ Sampled(call.images) = Sampled(last.images)

\* two equal constructions that shuffled a class of two or more rows
C3_Witness ==
    /\ call.completed /\ last.completed /\ call.args = last.args /\ call.rows = last.rows
    /\ \E c \in RawClassIds(call.rows) :
            Cardinality({i \in 1..Len(call.rows) : call.rows[i].class_id = c}) >= 2
    /\ Sampled(call.images) = Sampled(last.images)
    /\ HashPaths(call.images) # HashPaths(call.rows)

\* position of the first row of class c
FirstRow(rows, c) ==
    CHOOSE i \in 1..Len(rows) :
        rows[i].class_id = c /\ \A j \in 1..(i - 1) : rows[j].class_id # c

\* C4: without an external label dictionary, raw class ids that are exactly
\* 0..n-1 get the identity dictionary; otherwise each raw class id gets the
\* number of classes first encountered before it.
C4_LabelDict ==
    (call.completed /\ call.args.label_dict = NoDict) =>
        LET ids == RawClassIds(call.rows)
            n == Cardinality(ids)
        IN  /\ Len(ds.label_dict) = n
            /\ Range(Keys(ds.label_dict)) = ids
            /\ IF ids = 0..(n - 1)
               THEN \A i \in 1..n : ds.label_dict[i] = [k |-> i - 1, v |-> i - 1]
               ELSE \A c \in ids :
                        Get(ds.label_dict, c) =
                            Cardinality({c2 \in ids :
                                FirstRow(call.rows, c2) < FirstRow(call.rows, c)})

\* raw class ids 0..n-1 first encountered out of order
C4_Witness ==
    /\ call.completed /\ call.args.label_dict = NoDict
    /\ RawClassIds(call.rows) = 0..(Cardinality(RawClassIds(call.rows)) - 1)
    /\ call.rows[1].class_id # 0
    /\ \A i \in 1..Len(ds.label_dict) : ds.label_dict[i] = [k |-> i - 1, v |-> i - 1]

\* the raw class id of the catalog row an image was built from
RawClassOf(image, rows) ==
    rows[CHOOSE i \in 1..Len(rows) : rows[i].file_hash = image.file_hash].class_id

\* C15: in bounded mode without an external label dictionary and with more
\* raw classes than the class cap, the classes that contribute items are
\* exactly the first sample_class_num keys of the label dictionary, and
\* every item's remapped class_id is below the cap.
C15_FirstKeysKept ==
    (BoundedCall /\ Cardinality(RawClassIds(call.rows)) > sample_class_num) =>
        /\ {RawClassOf(ds.images[i], call.rows) : i \in 1..Len(ds.images)} =
                Range(SubSeq(Keys(ds.label_dict), 1, sample_class_num))
        /\ \A i \in 1..Len(ds.images) :
                ds.images[i].class_id >= 0 /\ ds.images[i].class_id < sample_class_num

\* more classes than the cap, numbered by identity, the first row being of
\* a class that is dropped
C15_Witness ==
    /\ BoundedCall /\ Cardinality(RawClassIds(call.rows)) > sample_class_num
    /\ \A i \in 1..Len(ds.label_dict) : ds.label_dict[i] = [k |-> i - 1, v |-> i - 1]
    /\ call.rows[1].class_id >= sample_class_num
    /\ Len(ds.images) >= sample_class_num
    /\ \A i \in 1..Len(ds.images) :
            RawClassOf(ds.images[i], call.rows) # call.rows[1].class_id

----------------------------------------------------------------------------
(* SpecAccess: item access over catalogs of up to MaxAccessRows rows, with *)
(* an image file or the store file possibly missing.                       *)

MaxAccessRows ==
    2

AccessClassIds ==
    {1, 4}

AccessCatalogs ==
    {Catalog(cs, "train") : cs \in UNION {[1..m -> AccessClassIds] : m \in 0..MaxAccessRows}}

\* the store: at most the resnet50 file of task t1, with a vector per catalog row
StoreWith(present, cat) ==
    [fn \in (IF present THEN {StoreFilename("resnet50", <<"t", "1">>)} ELSE {}) |->
        StoreOf({cat[i].file_hash : i \in 1..Len(cat)})]

InitAccess ==
    /\ catalog \in AccessCatalogs
    /\ \E gone \in {{}} \cup {{IMAGES_ROOT_PATH \o <<"t", "1", "/">> \o RelPathOf(1)}} :
            files = (ImageFilesOf(catalog) \ gone) \cup {DATABASE_PATH}
    /\ dirs = {IMAGES_ROOT_PATH}
    /\ \E present \in BOOLEAN : store = StoreWith(present, catalog)
    /\ rng = 0
    /\ ds = NoInstance
    /\ result = NoResult
    /\ reported = NoReport
    /\ call = NoCall
    /\ last = NoCall
    /\ part = NoPart
    /\ acc = NoAcc
    /\ gfl = NoGfl
    /\ ret = NoRet

NextAccess ==
    \/ ConstructAccess
    \/ CallLen
    \/ CallGetItem
    \/ CallOriginalImagePathForIndex
    \/ CallGetEntryForIndex

SpecAccess ==
    InitAccess /\ [][NextAccess]_vars

----------------------------------------------------------------------------
(* SpecVerify: feature-vector verification and loading while vectors       *)
(* disappear from the store.                                               *)

InitVerify ==
    /\ catalog \in AccessCatalogs
    /\ files = ImageFilesOf(catalog) \cup {DATABASE_PATH}
    /\ dirs = {IMAGES_ROOT_PATH}
    /\ \E present \in BOOLEAN : store = StoreWith(present, catalog)
    /\ rng = 0
    /\ ds = NoInstance
    /\ result = NoResult
    /\ reported = NoReport
    /\ call = NoCall
    /\ last = NoCall
    /\ part = NoPart
    /\ acc = NoAcc
    /\ gfl = NoGfl
    /\ ret = NoRet

NextVerify ==
    \/ ConstructForVerify
    \/ CallVerifyFeatureVectors
    \/ StoreDrop

SpecVerify ==
    InitVerify /\ [][NextVerify]_vars

----------------------------------------------------------------------------
(* Claims about verification and item access.                              *)

\* the file hashes the items of an instance require
RequiredHashes(d) ==
    {d.images[i].file_hash : i \in 1..Len(d.images)}

\* the store file of the instance exists
StoreFileExists(d) ==
    d.vector_type # None /\ StoreFilename(d.vector_type, d.dataset_name) \in DOMAIN store

\* ... and holds a key for every required hash
StoreComplete(d) ==
    /\ StoreFileExists(d)
    /\ RequiredHashes(d) \subseteq DOMAIN store[StoreFilename(d.vector_type, d.dataset_name)]

\* what a call of verify_feature_vectors_exist_and_load must establish
VerifyPost ==
    /\ result'.ok <=> StoreComplete(ds)
    /\ (result'.ok /\ ~result'.skip_load) =>
            \A i \in 1..Len(ds.images) :
                ds'.images[i].feature_vector =
                    store[StoreFilename(ds.vector_type, ds.dataset_name)][ds.images[i].file_hash]
    /\ (StoreFileExists(ds) /\ ~StoreComplete(ds)) =>
            /\ ~result'.ok
            /\ reported'.missing_vectors =
                   RequiredHashes(ds) \ DOMAIN store[StoreFilename(ds.vector_type, ds.dataset_name)]
            /\ ds'.images = ds.images
    /\ Sampled(ds'.images) = Sampled(ds.images)

\* C7: verify_feature_vectors_exist_and_load returns true exactly when the
\* store file exists and has a key for every required hash; then, unless
\* loading is skipped, every item holds the array stored under its hash; when
\* a hash is missing it returns false, reports exactly the missing hashes and
\* leaves every feature vector as it was.
C7_VerifyAndLoad ==
    [][CallVerifyFeatureVectors => VerifyPost]_vars

\* a failed verification on an instance that had loaded vectors before
C7_Witness ==
    /\ result.op = "verify_feature_vectors_exist_and_load" /\ ~result.ok
    /\ reported.missing_vectors # {}
    /\ reported.missing_vectors # RequiredHashes(ds)
    /\ \A i \in 1..Len(ds.images) : ds.images[i].feature_vector # EmptyTensor

IndexOps ==
    {"__getitem__", "original_image_path_for_index", "get_entry_for_index"}

\* C8: on a properly initialized instance with n items (and, for item
\* access to original images, a pipeline) the three index operations return
\* for every index in 0..n and fail the index assertion for any other.
C8_IndexBounds ==
    (/\ result.op \in IndexOps
     /\ ds.initialized_correctly
     /\ (ds.input_type = "features" \/ ds.pipeline # None)) =>
        IF 0 <= result.index /\ result.index <= Len(ds.images)
        THEN result.kind = "return"
        ELSE result.kind = "raise" /\ result.exc = "AssertionError"

\* C9: on an instance that construction left with initialized_correctly
\* false, __len__, __getitem__ and get_entry_for_index fail with an
\* assertion error.
C9_UninitializedFails ==
    (/\ result.op \in {"__len__", "__getitem__", "get_entry_for_index"}
     /\ ds.bound /\ ~ds.initialized_correctly) =>
        result.kind = "raise" /\ result.exc = "AssertionError"

\* an item access on the instance a query without rows left behind
C9_Witness ==
    /\ result.op = "__getitem__" /\ ds.bound /\ ~ds.initialized_correctly
    /\ ~ds.has_images /\ call.exc = ""
    /\ result.kind = "raise" /\ result.exc = "AssertionError"

\* C10: in original mode, item access on a properly initialized instance
\* returns the pipeline's output for the RGB image when a pipeline is
\* configured and the raw RGB image, without raising, when none is.
C10_PipelineOptional ==
    (/\ result.op = "__getitem__"
     /\ ds.initialized_correctly /\ ds.input_type = "original"
     /\ 0 <= result.index /\ result.index < Len(ds.images)) =>
        /\ result.kind = "return"
        /\ result.label = ds.images[result.index + 1].class_id
        /\ result.input.path = ImagePath(ds, result.index)
        /\ result.input.pipeline = ds.pipeline
        /\ result.input.kind = IF ds.pipeline = None THEN "rgb_image" ELSE "pipeline_output"

----------------------------------------------------------------------------
(* SpecPartition: calls of divide_integer_K.                               *)

MaxN ==
    6
MaxK ==
    4

DivideIntegerK ==
    /\ \E N \in (-MaxN)..MaxN, K \in 1..MaxK, shuff \in BOOLEAN : \E perm \in Perms(K) :
         part' = [N |-> N, K |-> K, shuff |-> shuff,
                  array |-> divide_integer_K(N, K, shuff, perm)]
    /\ UNCHANGED <<catalog, files, dirs, store, rng, ds, result, reported, call, last,
                   acc, gfl, ret>>

InitUtils ==
    /\ catalog = <<>>
    /\ files = {}
    /\ dirs = {}
    /\ store = <<>>
    /\ rng = 0
    /\ ds = NoInstance
    /\ result = NoResult
    /\ reported = NoReport
    /\ call = NoCall
    /\ last = NoCall
    /\ part = NoPart
    /\ acc = NoAcc
    /\ gfl = NoGfl
    /\ ret = NoRet

NextPartition ==
    DivideIntegerK

SpecPartition ==
    InitUtils /\ [][NextPartition]_vars

RECURSIVE Sum(_, _)
Sum(s, i) ==
    IF i > Len(s) THEN 0 ELSE s[i] + Sum(s, i + 1)

\* floor(N/K)+1 in the first N mod K places, floor(N/K) in the others
EvenSplit(N, K) ==
    List([i \in 1..K |-> (N \div K) + (IF i <= N % K THEN 1 ELSE 0)])

\* C5: for N >= 0 and K > 0 divide_integer_K returns K non-negative integers
\* that sum to N and differ from floor(N/K) by at most 1; unshuffled, the
\* first N mod K are floor(N/K)+1 and the others floor(N/K); shuffled, the
\* array is a permutation of that one.
C5_DivideIntegerK ==
    (part.K > 0 /\ part.N >= 0) =>
        /\ Len(part.array) = part.K
        /\ \A i \in 1..part.K :
              /\ part.array[i] >= 0
              /\ part.array[i] - (part.N \div part.K) \in {-1, 0, 1}
        /\ Sum(part.array, 1) = part.N
        /\ ~part.shuff => part.array = EvenSplit(part.N, part.K)
        /\ part.shuff =>
              \A v \in Range(part.array) \cup Range(EvenSplit(part.N, part.K)) :
                  Count(part.array, v) = Count(EvenSplit(part.N, part.K), v)

\* a shuffled partition with a remainder, in another order than the unshuffled one
C5_Witness ==
    /\ part.K > 1 /\ part.N > part.K /\ part.N % part.K # 0 /\ part.shuff
    /\ part.array # EvenSplit(part.N, part.K)
    /\ Sum(part.array, 1) = part.N

----------------------------------------------------------------------------
(* SpecLabels: calls of get_files_and_labels that thread the same files,   *)
(* labels and label dictionary, starting from empty ones.                  *)

\* most files a call may leave in the list
MaxFiles ==
    2
\* most lines of an index file
MaxLines ==
    2

\* lines of index files: a well-formed one, a label written with a leading
\* zero after two blanks and without a newline, a file name with a blank, a
\* line without a label, a label that is no number
IndexLines ==
    { <<"a", " ", "0", "\n">>,
      <<"a", " ", " ", "0", "1">>,
      <<"a", " ", "b", " ", "1", "\n">>,
      <<"a", "\n">>,
      <<"a", " ", "x", "\n">> }

IndexFiles ==
    UNION {[1..m -> IndexLines] : m \in 0..MaxLines}

\* the base path a caller passes for dataset index i
BasePathOf(i) ==
    IF i = 0 THEN <<"d">> ELSE <<"e", "/">>

GetFilesAndLabels ==
    /\ \E lines \in IndexFiles, dset_idx \in {0, 1}, flag_unknown_label \in BOOLEAN :
         LET trace == get_files_and_labels(lines, BasePathOf(dset_idx), acc.files,
                          acc.labels, acc.label_dict, dset_idx, flag_unknown_label)
             end == trace[Len(trace)]
         IN  /\ Len(end.files) <= MaxFiles
             /\ acc' = [files |-> end.files, labels |-> end.labels,
                        label_dict |-> end.label_dict]
             /\ gfl' = [lines |-> lines, dset_idx |-> dset_idx,
                        flag_unknown_label |-> flag_unknown_label,
                        base_file_path |-> BasePathOf(dset_idx), trace |-> trace]
    /\ UNCHANGED <<catalog, files, dirs, store, rng, ds, result, reported, call, last,
                   part, ret>>

NextLabels ==
    GetFilesAndLabels

SpecLabels ==
    InitUtils /\ [][NextLabels]_vars

\* files, labels and dictionary are the same in two loop states
SameLists(before, after) ==
    /\ after.files = before.files
    /\ after.labels = before.labels
    /\ after.label_dict = before.label_dict

\* what the i-th line of the last call must have done
LineRule(i) ==
    LET before == gfl.trace[i]
        after == gfl.trace[i + 1]
        tokens == Split(gfl.lines[i])
        key == <<gfl.dset_idx, ParseInt(tokens[2]).value>>
        joined == PathJoin(gfl.base_file_path, tokens[1])
    IN  /\ Len(tokens) >= 3 => SameLists(before, after)
        /\ (Len(tokens) = 2 /\ ParseInt(tokens[2]).ok) =>
              IF HasKey(before.label_dict, key)
              THEN /\ after.label_dict = before.label_dict
                   /\ after.files = Append(before.files, joined)
                   /\ after.labels = Append(before.labels, Get(before.label_dict, key))
              ELSE IF gfl.flag_unknown_label
                   THEN SameLists(before, after)
                   ELSE /\ after.label_dict =
                               Append(before.label_dict,
                                      [k |-> key, v |-> Len(before.label_dict)])
                        /\ after.files = Append(before.files, joined)
                        /\ after.labels = Append(before.labels, Len(before.label_dict))

\* C6: in get_files_and_labels a line of three or more tokens appends
\* nothing and adds no key; a two-token line with an unknown key is dropped
\* when flag_unknown_label is set and otherwise gets the next dense label,
\* with its joined path and that label appended; a two-token line with a
\* known key appends its path and the label the dictionary holds.
C6_LineRules ==
    \A i \in 1..Len(gfl.lines) : LineRule(i)

\* a call with flag_unknown_label that dropped a line with an unknown label
\* after appending a line with a known one
C6_Witness ==
    /\ gfl.flag_unknown_label
    /\ \E i \in 1..Len(gfl.lines) :
          /\ Len(Split(gfl.lines[i])) = 2 /\ ParseInt(Split(gfl.lines[i])[2]).ok
          /\ ~HasKey(gfl.trace[i].label_dict,
                     <<gfl.dset_idx, ParseInt(Split(gfl.lines[i])[2]).value>>)
          /\ gfl.trace[i + 1] = gfl.trace[i]
          /\ Len(gfl.trace[i].files) > Len(gfl.trace[1].files)

\* C17: after any calls that thread the same files, labels and dictionary
\* from empty ones, the dictionary's values are pairwise distinct and are
\* exactly 0..len(dictionary)-1, files and labels have equal length, and
\* every label is a value of the dictionary.
C17_DenseLabels ==
    LET values == {acc.label_dict[i].v : i \in 1..Len(acc.label_dict)}
    IN  /\ Cardinality(values) = Len(acc.label_dict)
        /\ values = 0..(Len(acc.label_dict) - 1)
        /\ Len(acc.files) = Len(acc.labels)
        /\ \A i \in 1..Len(acc.labels) : acc.labels[i] \in values

\* keys of both dataset indices, added by different calls, the last call
\* having met a malformed line
C17_Witness ==
    /\ Len(acc.label_dict) >= 2
    /\ \E i, j \in 1..Len(acc.label_dict) :
            acc.label_dict[i].k[1] # acc.label_dict[j].k[1]
    /\ Len(gfl.trace[1].label_dict) >= 1
    /\ Len(gfl.trace[1].label_dict) < Len(acc.label_dict)
    /\ gfl.trace[Len(gfl.trace)].reported > 0
    /\ Len(acc.files) = Len(acc.labels)

----------------------------------------------------------------------------
(* SpecStatic: the static methods sanitize_and_check_root_path and         *)
(* verify_everything, over catalogs of up to MaxStaticRows rows of several *)
(* tasks and root paths written with zero to three trailing separators.    *)

MaxStaticRows ==
    2

\* a catalog of train rows without problems, row i of task ts[i]
StaticCatalog(ts) ==
    List([i \in 1..Len(ts) |->
        [file_hash |-> Hashes[i], relative_path |-> RelPathOf(i), class_id |-> 0,
         set_id |-> 0, problem |-> 0, dataset |-> ts[i]]])

StaticCatalogs ==
    {StaticCatalog(ts) : ts \in UNION {[1..m -> Range(DatasetOrder)] : m \in 0..MaxStaticRows}}

\* the images root written without, with one, two and three trailing
\* separators, and a path that names no directory
RootPaths ==
    { SubSeq(IMAGES_ROOT_PATH, 1, Len(IMAGES_ROOT_PATH) - 1),
      IMAGES_ROOT_PATH,
      IMAGES_ROOT_PATH \o <<"/">>,
      IMAGES_ROOT_PATH \o <<"/", "/">>,
      <<"/", "x">> }

\* CollectionDataset.sanitize_and_check_root_path(root_path)
CallSanitize ==
    /\ \E root_path \in RootPaths :
         LET r == sanitize_and_check_root_path(SanitizedPath(root_path))
         IN  ret' = [NoRet EXCEPT !.op = "sanitize_and_check_root_path",
                                  !.arg = root_path, !.exc = r.exc,
                                  !.value = IF r.exc = "" THEN r.value ELSE <<>>]
    /\ UNCHANGED <<catalog, files, dirs, store, rng, ds, result, reported, call, last,
                   part, acc, gfl>>

\* CollectionDataset.verify_everything(root_path)
CallVerifyEverything ==
    /\ \E root_path \in RootPaths :
         LET r == verify_everything(root_path, rng)
         IN  /\ ret' = [NoRet EXCEPT !.op = "verify_everything", !.arg = root_path,
                                     !.exc = r.exc, !.value = r.value,
                                     !.broken = r.broken]
             /\ rng' = r.rng
    /\ UNCHANGED <<catalog, files, dirs, store, ds, result, reported, call, last,
                   part, acc, gfl>>

InitStatic ==
    /\ catalog \in StaticCatalogs
    /\ \E gone \in {{}} \cup {{IMAGES_ROOT_PATH \o <<"t", "1", "/">> \o RelPathOf(1)}} :
            files = (ImageFilesOf(catalog) \ gone) \cup {DATABASE_PATH}
    /\ dirs = {IMAGES_ROOT_PATH}
    /\ store = [fn \in {StoreFilename(vt, name) :
                            vt \in Range(VECTOR_TYPES), name \in Range(DatasetOrder)} |->
                    StoreOf({catalog[i].file_hash : i \in 1..Len(catalog)})]
    /\ rng = 0
    /\ ds = NoInstance
    /\ result = NoResult
    /\ reported = NoReport
    /\ call = NoCall
    /\ last = NoCall
    /\ part = NoPart
    /\ acc = NoAcc
    /\ gfl = NoGfl
    /\ ret = NoRet

NextStatic ==
    \/ CallSanitize
    \/ CallVerifyEverything

SpecStatic ==
    InitStatic /\ [][NextStatic]_vars

\* the instance the documentation of verify_everything describes for a
\* task: original-image mode, every split and input type verified
InstanceOfTask(name) ==
    CollectionDataset(
        [dataset_name |-> name, set_type |-> "train", input_type |-> "original",
         vector_type |-> "resnet50", pipeline |-> "resnet50_tf_pipeline",
         label_dict |-> NoDict, verify_all_sets_all_types |-> TRUE,
         full_dataset |-> FALSE], 0)

TaskVerifies(name) ==
    InstanceOfTask(name).exc = "" /\ InstanceOfTask(name).d.initialized_correctly

\* C11: called with an existing root directory, verify_everything runs to
\* completion, returns true exactly when the instance of every task of the
\* catalog is initialized correctly, and otherwise reports exactly the
\* tasks whose instance failed verification.
C11_VerifyEverything ==
    (ret.op = "verify_everything" /\ isdir(ret.arg)) =>
        /\ ret.exc = ""
        /\ ret.value = (\A n \in Range(DatasetList) : TaskVerifies(n))
        /\ ~ret.value =>
                ret.broken = SelectSeq(DatasetList, LAMBDA n : ~TaskVerifies(n))

\* C12: for a path that names an existing directory,
\* sanitize_and_check_root_path returns a string that ends with exactly one
\* separator.
C12_OneTrailingSeparator ==
    (ret.op = "sanitize_and_check_root_path" /\ isdir(ret.arg)) =>
        /\ ret.exc = ""
        /\ Len(ret.value) >= 1
        /\ ret.value[Len(ret.value)] = "/"
        /\ Len(ret.value) >= 2 => ret.value[Len(ret.value) - 1] # "/"

----------------------------------------------------------------------------
(* SpecReadFile: read_file on files of up to MaxReadLines lines.           *)

MaxReadLines ==
    3

\* lines of a file: two fields separated by two blanks and without a
\* newline, three fields with a number second, one field, no field, two
\* fields with a word second
ReadLines ==
    { <<"b", " ", " ", "1", "2">>,
      <<"a", " ", "1", " ", "b", "\n">>,
      <<"a", "\n">>,
      <<"\n">>,
      <<"a", " ", "x", "\n">> }

ReadFiles ==
    UNION {[1..m -> ReadLines] : m \in 0..MaxReadLines}

\* read_file(filename) on a file that exists
ReadFile ==
    /\ \E lines \in ReadFiles :
         LET r == read_file(lines)
         IN  ret' = [NoRet EXCEPT !.op = "read_file", !.arg = lines, !.exc = r.exc,
                                  !.value = r.value]
    /\ UNCHANGED <<catalog, files, dirs, store, rng, ds, result, reported, call, last,
                   part, acc, gfl>>

NextReadFile ==
    ReadFile

SpecReadFile ==
    InitUtils /\ [][NextReadFile]_vars

\* C13: read_file raises whenever some line does not split into exactly two
\* fields, and on a file whose lines all hold a token and an integer it
\* returns the (token, integer) pairs in file order.
C13_ReadFileStrict ==
    ret.op = "read_file" =>
        LET lines == ret.arg
        IN  /\ (\E i \in 1..Len(lines) : Len(Split(lines[i])) # 2) => ret.exc # ""
            /\ (\A i \in 1..Len(lines) :
                    Len(Split(lines[i])) = 2 /\ ParseInt(Split(lines[i])[2]).ok) =>
                  /\ ret.exc = ""
                  /\ ret.value = List([i \in 1..Len(lines) |->
                        <<Split(lines[i])[1], ParseInt(Split(lines[i])[2]).value>>])

----------------------------------------------------------------------------
(* SpecSetup: setup calls, and files written into run directories between  *)
(* them, starting from an empty working directory.                         *)

\* the results directories callers pass: a plain one, and one that is the
\* run directory of another experiment
DirResults ==
    { <<"r">>, <<"r", "/", "x", "/", "T", "e", "s", "t", "_", "0">> }

DsetNames ==
    { <<"x">> }

\* test_num: a numbered test, or -1 for a run named by the time of the call
TestNums ==
    {-1, 0}

\* datetime.now().strftime('%d%m%y_%H%M%S')
Timestamps ==
    { TIMESTAMP }

SetupArgs ==
    [dir_results : DirResults, dset_name : DsetNames, test_num : TestNums]

RunDirs ==
    {Canonical(DirSave(a, now)) : a \in SetupArgs, now \in Timestamps}

\* most files that experiments have written and that are still on disk
MaxRunFiles ==
    2

\* names of files an experiment writes into its run directory
RunFileNames ==
    { <<"x">>, STUDENT_ACC \o <<".", "t", "x", "t">> }

\* the characters of s before its first separator
RECURSIVE FirstComponent(_, _)
FirstComponent(s, i) ==
    IF i > Len(s) \/ s[i] = "/" THEN SubSeq(s, 1, i - 1) ELSE FirstComponent(s, i + 1)

\* the last component of a file name
RECURSIVE BaseNameFrom(_, _)
BaseNameFrom(s, i) ==
    IF i < 1 \/ s[i] = "/" THEN SubSeq(s, i + 1, Len(s)) ELSE BaseNameFrom(s, i - 1)

BaseName(s) ==
    BaseNameFrom(s, Len(s))

\* os.listdir(D) for the directory of canonical name D
Entries(D) ==
    {FirstComponent(SubSeq(x, Len(D) + 1, Len(x)), 1) :
        x \in {y \in files \cup dirs : IsPrefix(D, y) /\ y # D}}

\* args = setup(args)
Setup ==
    /\ \E args \in SetupArgs, now \in Timestamps :
         LET r == setup([files |-> files, dirs |-> dirs], args, now)
         IN  /\ files' = r.fs.files
             /\ dirs' = r.fs.dirs
             /\ ret' = [NoRet EXCEPT !.op = "setup", !.arg = [args |-> args, now |-> now],
                                     !.exc = r.exc, !.value = r.value,
                                     !.before = Entries(Canonical(DirSave(args, now)))]
    /\ UNCHANGED <<catalog, store, rng, ds, result, reported, call, last, part, acc, gfl>>

\* an experiment writes a file into a run directory
CreateRunFile ==
    /\ Cardinality({f \in files : BaseName(f) # CONFIG_MODEL_JSON}) < MaxRunFiles
    /\ \E D \in dirs \cap RunDirs, name \in RunFileNames :
         /\ (D \o name) \notin files
         /\ Canonical(D \o name) \notin dirs
         /\ files' = files \cup {D \o name}
         /\ ret' = [NoRet EXCEPT !.op = "open", !.arg = D \o name]
    /\ UNCHANGED <<catalog, dirs, store, rng, ds, result, reported, call, last, part,
                   acc, gfl>>

NextSetup ==
    \/ Setup
    \/ CreateRunFile

SpecSetup ==
    InitUtils /\ [][NextSetup]_vars

\* the run directory the documentation names for a call
RunDirectory(a) ==
    a.args.dir_results \o <<"/">> \o a.args.dset_name \o <<"/">>
        \o (IF a.args.test_num >= 0 THEN TEST_PREFIX \o IntStr(a.args.test_num) ELSE a.now)
        \o <<"/">>

\* C14: right after setup returns, the run directory exists and holds
\* exactly config_model.json, and the returned configuration holds dir_save
\* and the four accuracy-log paths, all under the run directory.
C14_FreshRunDirectory ==
    (ret.op = "setup" /\ ret.exc = "") =>
        LET D == Canonical(RunDirectory(ret.arg))
        IN  /\ D \in dirs
            /\ Entries(D) = {CONFIG_MODEL_JSON}
            /\ (D \o CONFIG_MODEL_JSON) \in files
            /\ Canonical(ret.value.dir_save) = D
            /\ \A path \in {ret.value.acc_tmapping_student,
                            ret.value.acc_tmapping_student_per_task,
                            ret.value.acc_teacher, ret.value.acc_student} :
                    /\ IsPrefix(D, FileName(path))
                    /\ Len(FileName(path)) > Len(D)
            /\ Cardinality({ret.value.acc_tmapping_student,
                            ret.value.acc_tmapping_student_per_task,
                            ret.value.acc_teacher, ret.value.acc_student}) = 4

\* a setup over a run directory that held the configuration and two files
\* of an earlier run
C14_Witness ==
    /\ ret.op = "setup" /\ ret.exc = ""
    /\ <<"x">> \in ret.before
    /\ Cardinality(ret.before) >= 3
    /\ Entries(Canonical(RunDirectory(ret.arg))) = {CONFIG_MODEL_JSON}

----------------------------------------------------------------------------
(* SpecShared: the export script's constructions (lines 647-649): a train  *)
(* instance, then validation and test instances given the train            *)
(* instance's label dictionary, over catalogs of up to MaxSharedRows rows  *)
(* spread over the splits.                                                 *)

MaxSharedRows ==
    3

SharedClassIds ==
    {0, 1, 4}

\* a catalog of task t1 without problems: row i has class cs[i], split sets[i]
SharedCatalog(cs, sets) ==
    List([i \in 1..Len(cs) |->
        [file_hash |-> Hashes[i], relative_path |-> RelPathOf(i), class_id |-> cs[i],
         set_id |-> sets[i], problem |-> 0, dataset |-> <<"t", "1">>]])

SharedCatalogs ==
    UNION {{SharedCatalog(cs, sets) : cs \in [1..m -> SharedClassIds],
                                      sets \in [1..m -> 0..(Len(SET_TYPES) - 1)]} :
           m \in 0..MaxSharedRows}

\* line 647: train_dataset = CollectionDataset(task_name, 'train', 'features', ...)
ConstructTrain ==
    /\ Construct([dataset_name |-> <<"t", "1">>, set_type |-> "train",
                  input_type |-> "features", vector_type |-> "xception",
                  pipeline |-> "xception_tf_pipeline", label_dict |-> NoDict,
                  verify_all_sets_all_types |-> FALSE, full_dataset |-> FALSE])
    /\ last' = call

\* the label dictionary of the train instance at hand, if there is one
TrainLabelDict ==
    IF call.completed /\ call.args.set_type = "train" THEN call.label_dict
    ELSE call.args.label_dict

\* lines 648-649: CollectionDataset(task_name, 'validation' / 'test',
\* 'features', label_dict=train_dataset.label_dict, ...)
ConstructShared ==
    /\ call.valid /\ TrainLabelDict # NoDict
    /\ \E st \in {"validation", "test"} :
         Construct([dataset_name |-> <<"t", "1">>, set_type |-> st,
                    input_type |-> "features", vector_type |-> "xception",
                    pipeline |-> "xception_tf_pipeline", label_dict |-> TrainLabelDict,
                    verify_all_sets_all_types |-> FALSE, full_dataset |-> FALSE])
    /\ last' = call

InitShared ==
    /\ catalog \in SharedCatalogs
    /\ files = ImageFilesOf(catalog) \cup {DATABASE_PATH}
    /\ dirs = {IMAGES_ROOT_PATH}
    /\ store = FullStore(catalog)
    /\ rng = 0
    /\ ds = NoInstance
    /\ result = NoResult
    /\ reported = NoReport
    /\ call = NoCall
    /\ last = NoCall
    /\ part = NoPart
    /\ acc = NoAcc
    /\ gfl = NoGfl
    /\ ret = NoRet

NextShared ==
    \/ ConstructTrain
    \/ ConstructShared

SpecShared ==
    InitShared /\ [][NextShared]_vars

\* the rows the catalog holds for the task and split of a construction
QueriedRows(a) ==
    SelectSeq(catalog, LAMBDA r :
        r.dataset = a.dataset_name /\ r.problem = 0
            /\ r.set_id = IndexOf(SET_TYPES, a.set_type))

\* C16: given a non-empty external label dictionary whose keys include every
\* raw class id of the queried rows, and rows of at most sample_class_num
\* classes, construction raises nothing, every class of the rows
\* contributes items, and every item carries the dictionary's value for its
\* raw class id.
C16_SharedLabelDict ==
    (/\ call.valid /\ call.args.label_dict # NoDict
     /\ Len(QueriedRows(call.args)) > 0
     /\ RawClassIds(QueriedRows(call.args)) \subseteq Range(Keys(call.args.label_dict))
     /\ Cardinality(RawClassIds(QueriedRows(call.args))) <= sample_class_num) =>
        /\ call.exc = ""
        /\ {RawClassOf(call.images[i], QueriedRows(call.args)) : i \in 1..Len(call.images)}
                = RawClassIds(QueriedRows(call.args))
        /\ \A i \in 1..Len(call.images) :
                call.images[i].class_id =
                    Get(call.args.label_dict,
                        RawClassOf(call.images[i], QueriedRows(call.args)))

====
